---- MODULE Spec2Model ----
(***************************************************************************)
(* Flow control of InterviewPage (src/src/components/InterviewPage.jsx):   *)
(* the React state of the component, the asynchronous handlers             *)
(* handleStartInterview, askQuestion and handleSubmitAnswer, and the       *)
(* collaborator calls they leave in flight.  A handler runs atomically     *)
(* from one await to the next; what it reads after an await are the values *)
(* its closure captured in the render it was created in, so every call in  *)
(* flight carries those captured values.                                   *)
(***************************************************************************)
EXTENDS Integers, Sequences, FiniteSets, Bags, TLC

\* ---------------------------------------------------------------- bounds
MaxTopics == 2
MaxQuestions == 2
MaxBlank == 1
MaxAnswers == 3
MaxInFlight == 2
MaxWalkAnswers == 7
DeepQuestions == 4
MaxLiveAnswers == 20
MaxDeepAnswers == 7
MaxSessions == 2
MaxRestartAnswers == 1

\* ------------------------------------------------------ program constants
REPEAT_QUESTION == 1
CLARIFY_QUESTION == 2
NEXT_QUESTION == 3
NEXT_TOPIC == 4
END_INTERVIEW == 5
MAX_ATTEMPTS_PLANNED == 3
MAX_FOLLOW_UP_STREAK == 3

ACTION_CODES == {REPEAT_QUESTION, CLARIFY_QUESTION, NEXT_QUESTION, NEXT_TOPIC, END_INTERVIEW}

\* null of JavaScript (interviewPlan, pausedState)
Null == [null |-> TRUE]

\* ------------------------------------------------------------------ plans
\* A question or a topic name is modelled by its truthiness: TRUE for a
\* non-empty string, FALSE for "" (or a missing / falsy value).
QuestionLists == UNION {[1..n -> BOOLEAN] : n \in 0..MaxQuestions}

RawTopics == [name : BOOLEAN, questions : QuestionLists]

\* the number of falsy questions of a plan
Blanks(plan) ==
    Cardinality({ij \in (1..Len(plan.topics)) \X (1..MaxQuestions) :
                    /\ ij[2] <= Len(plan.topics[ij[1]].questions)
                    /\ ~plan.topics[ij[1]].questions[ij[2]]})

\* what callPlannerLlm can return: an object with a topics array
RawPlans ==
    {plan \in [topics : UNION {[1..n -> RawTopics] : n \in 0..MaxTopics}] :
        Blanks(plan) <= MaxBlank}

\* the plan of the README walkthrough: React (2 questions), Node.js (3 questions)
ReadmePlan ==
    [topics |-> <<[name |-> TRUE, questions |-> <<TRUE, TRUE>>],
                  [name |-> TRUE, questions |-> <<TRUE, TRUE, TRUE>>]>>]

\* a plan long enough for the streak limit to be reached before its end
DeepPlan ==
    [topics |-> [t \in 1..MaxTopics |->
                    [name |-> TRUE, questions |-> [q \in 1..DeepQuestions |-> TRUE]]]]

\* a validation that looks at the topics array only
PlanHasTopics(plan) == Len(plan.topics) # 0

\* the validation of handleStartInterview
PlanIsValid(plan) ==
    /\ Len(plan.topics) # 0
    /\ \A i \in 1..Len(plan.topics) :
          plan.topics[i].name /\ Len(plan.topics[i].questions) > 0

\* interviewPlan.topics[t] is defined (t is a zero-based index)
HasTopic(plan, t) ==
    IF plan = Null THEN FALSE ELSE t \in 0..(Len(plan.topics) - 1)

\* interviewPlan.topics[t].questions.length
QuestionCount(plan, t) == Len(plan.topics[t + 1].questions)

\* truthiness of interviewPlan?.topics[t]?.questions[q]
QuestionTruthy(plan, t, q) ==
    IF ~HasTopic(plan, t) THEN FALSE
    ELSE IF q \in 0..(QuestionCount(plan, t) - 1)
         THEN plan.topics[t + 1].questions[q + 1]
         ELSE FALSE

\* ------------------------------------------------------------------ state
VARIABLES
    interviewPlan,            \* Null or the accepted plan
    currentTopicIndex,
    currentQuestionIndex,
    currentQuestionAttempts,
    interviewLog,             \* sequence of log entries
    interviewState,           \* "SETUP", "PLANNING", "PLANNING_COMPLETE", "IN_PROGRESS", "ENDED"
    isLoading,
    isFollowUpActive,
    pausedState,              \* Null or the paused planned position
    currentFollowUpStreak,
    inflight,                 \* bag of collaborator calls awaiting their result
    lastInterviewerMessage,   \* the ref holds the text of the last utterance
    turnText,                 \* the last turn output received had text
    sessions,                 \* number of handleStartInterview runs so far
    answered,                 \* answers accepted by handleSubmitAnswer in this session
    unassessed,               \* accepted answers that ended without an assessment
    walk,                     \* progress along the README walkthrough, -1 once left
    last                      \* the handler step taken last

vars == <<interviewPlan, currentTopicIndex, currentQuestionIndex,
          currentQuestionAttempts, interviewLog, interviewState, isLoading,
          isFollowUpActive, pausedState, currentFollowUpStreak, inflight,
          lastInterviewerMessage, turnText, sessions, answered, unassessed, walk, last>>

NoCall == [kind |-> "none"]

\* a handler step: the call it settled, the result of that call (or the
\* branch taken), and the call it put in flight
Step(op, call, res, issued) ==
    [op |-> op, call |-> call, res |-> res, issued |-> issued]

\* useState initial values
Init ==
    /\ interviewPlan = Null
    /\ currentTopicIndex = 0
    /\ currentQuestionIndex = 0
    /\ currentQuestionAttempts = 0
    /\ interviewLog = <<>>
    /\ interviewState = "SETUP"
    /\ isLoading = FALSE
    /\ isFollowUpActive = FALSE
    /\ pausedState = Null
    /\ currentFollowUpStreak = 0
    /\ inflight = EmptyBag
    /\ lastInterviewerMessage = FALSE
    /\ turnText = FALSE
    /\ sessions = 0
    /\ answered = 0
    /\ unassessed = 0
    /\ walk = 0
    /\ last = Step("init", NoCall, "none", NoCall)

Issue(call) == inflight (+) SetToBag({call})

Settle(call) == inflight (-) SetToBag({call})

InFlight(kind) == {c \in BagToSet(inflight) : c.kind = kind}

\* ------------------------------------------------- handleStartInterview
PlannerCall == [kind |-> "planner"]

\* handleStartInterview up to its await of callPlannerLlm
StartInterview(descriptionOk) ==
    /\ IF ~descriptionOk
       THEN /\ last' = Step("startSkipped", NoCall, "none", NoCall)
            /\ UNCHANGED <<interviewPlan, currentTopicIndex, currentQuestionIndex,
                           currentQuestionAttempts, interviewLog, interviewState,
                           isLoading, isFollowUpActive, pausedState,
                           currentFollowUpStreak, inflight,
                           lastInterviewerMessage, turnText, sessions, answered,
                           unassessed, walk>>
       ELSE /\ isLoading' = TRUE
            /\ interviewState' = "PLANNING"
            /\ interviewLog' = <<>>
            /\ currentTopicIndex' = 0
            /\ currentQuestionIndex' = 0
            /\ currentQuestionAttempts' = 0
            /\ isFollowUpActive' = FALSE
            /\ pausedState' = Null
            /\ currentFollowUpStreak' = 0
            /\ interviewPlan' = Null
            /\ inflight' = Issue(PlannerCall)
            /\ lastInterviewerMessage' = FALSE
            /\ turnText' = FALSE
            /\ sessions' = sessions + 1
            /\ answered' = 0
            /\ unassessed' = 0
            /\ walk' = 0
            /\ last' = Step("start", NoCall, "none", PlannerCall)

\* handleStartInterview after callPlannerLlm has settled
PlannerReturn(call, failed, plan) ==
    /\ call \in InFlight("planner")
    /\ inflight' = Settle(call)
    /\ IF ~failed /\ PlanIsValid(plan)
       THEN /\ interviewPlan' = plan
            /\ interviewState' = "PLANNING_COMPLETE"
            /\ UNCHANGED isLoading
       ELSE /\ interviewState' = "SETUP"
            /\ isLoading' = FALSE
            /\ UNCHANGED interviewPlan
    /\ last' = Step("plannerReturn", call, IF failed THEN "error" ELSE "plan", NoCall)
    /\ UNCHANGED <<currentTopicIndex, currentQuestionIndex, currentQuestionAttempts,
                   interviewLog, isFollowUpActive, pausedState,
                   currentFollowUpStreak, sessions,
                   lastInterviewerMessage, turnText, answered, unassessed, walk>>

\* ------------------------------------------------------------ askQuestion
\* the question text of a request that ends the interview: the instruction
\* to close, no question of the plan
Closing == <<>>

\* the resolution with a re-ask honoured past the end of the plan
ResolveReask(plan, topicIdx, questionIdx, actionCode) ==
    IF ~HasTopic(plan, topicIdx)
    THEN [effectiveActionCode |-> END_INTERVIEW, endInterview |-> TRUE,
          nextStateTopicIndex |-> topicIdx, nextStateQuestionIndex |-> questionIdx,
          plannedQuestion |-> Closing]
    ELSE IF questionIdx < QuestionCount(plan, topicIdx)
            \/ (~HasTopic(plan, topicIdx + 1)
                  /\ actionCode \in {REPEAT_QUESTION, CLARIFY_QUESTION})
    THEN [effectiveActionCode |-> IF actionCode = NEXT_TOPIC THEN NEXT_QUESTION
                                  ELSE actionCode,
          endInterview |-> FALSE,
          nextStateTopicIndex |-> topicIdx, nextStateQuestionIndex |-> questionIdx,
          plannedQuestion |-> IF actionCode = END_INTERVIEW THEN Closing
                              ELSE <<topicIdx, questionIdx>>]
    ELSE IF HasTopic(plan, topicIdx + 1)
    THEN [effectiveActionCode |-> NEXT_TOPIC, endInterview |-> FALSE,
          nextStateTopicIndex |-> topicIdx + 1, nextStateQuestionIndex |-> 0,
          plannedQuestion |-> <<topicIdx + 1, 0>>]
    ELSE [effectiveActionCode |-> END_INTERVIEW, endInterview |-> TRUE,
          nextStateTopicIndex |-> topicIdx, nextStateQuestionIndex |-> questionIdx,
          plannedQuestion |-> Closing]

\* the resolution with a re-ask honoured at the end of a topic
ResolveReaskInTopic(plan, topicIdx, questionIdx, actionCode) ==
    IF ~HasTopic(plan, topicIdx)
    THEN [effectiveActionCode |-> END_INTERVIEW, endInterview |-> TRUE,
          nextStateTopicIndex |-> topicIdx, nextStateQuestionIndex |-> questionIdx,
          plannedQuestion |-> Closing]
    ELSE IF questionIdx < QuestionCount(plan, topicIdx)
            \/ actionCode \in {REPEAT_QUESTION, CLARIFY_QUESTION}
    THEN [effectiveActionCode |-> IF actionCode = NEXT_TOPIC THEN NEXT_QUESTION
                                  ELSE actionCode,
          endInterview |-> FALSE,
          nextStateTopicIndex |-> topicIdx, nextStateQuestionIndex |-> questionIdx,
          plannedQuestion |-> IF actionCode = END_INTERVIEW THEN Closing
                              ELSE <<topicIdx, questionIdx>>]
    ELSE IF HasTopic(plan, topicIdx + 1)
    THEN [effectiveActionCode |-> NEXT_TOPIC, endInterview |-> FALSE,
          nextStateTopicIndex |-> topicIdx + 1, nextStateQuestionIndex |-> 0,
          plannedQuestion |-> <<topicIdx + 1, 0>>]
    ELSE [effectiveActionCode |-> END_INTERVIEW, endInterview |-> TRUE,
          nextStateTopicIndex |-> topicIdx, nextStateQuestionIndex |-> questionIdx,
          plannedQuestion |-> Closing]

\* askQuestion before its try block: the requested action is resolved
\* against the plan the closure holds, and the question whose text goes to
\* callInterviewerLlm is chosen
Resolve(plan, topicIdx, questionIdx, actionCode) ==
    IF ~HasTopic(plan, topicIdx)
    THEN [effectiveActionCode |-> END_INTERVIEW, endInterview |-> TRUE,
          nextStateTopicIndex |-> topicIdx, nextStateQuestionIndex |-> questionIdx,
          plannedQuestion |-> Closing]
    ELSE IF questionIdx < QuestionCount(plan, topicIdx)
    THEN [effectiveActionCode |-> IF actionCode = NEXT_TOPIC THEN NEXT_QUESTION
                                  ELSE actionCode,
          endInterview |-> FALSE,
          nextStateTopicIndex |-> topicIdx, nextStateQuestionIndex |-> questionIdx,
          plannedQuestion |-> IF actionCode = END_INTERVIEW THEN Closing
                              ELSE <<topicIdx, questionIdx>>]
    ELSE IF HasTopic(plan, topicIdx + 1)
    THEN [effectiveActionCode |-> NEXT_TOPIC, endInterview |-> FALSE,
          nextStateTopicIndex |-> topicIdx + 1, nextStateQuestionIndex |-> 0,
          plannedQuestion |-> <<topicIdx + 1, 0>>]
    ELSE [effectiveActionCode |-> END_INTERVIEW, endInterview |-> TRUE,
          nextStateTopicIndex |-> topicIdx, nextStateQuestionIndex |-> questionIdx,
          plannedQuestion |-> Closing]

\* the values an askQuestion closure holds (its useCallback dependencies)
AskClosure(plan, streak, attempts) ==
    [plan |-> plan, streak |-> streak, attempts |-> attempts]

\* askQuestion(topicIdx, questionIdx, actionCode) suspended at its await of
\* callInterviewerLlm
InterviewerCall(closure, topicIdx, questionIdx, actionCode) ==
    LET r == Resolve(closure.plan, topicIdx, questionIdx, actionCode)
    IN  [kind |-> "interviewer",
         topicIdx |-> topicIdx, questionIdx |-> questionIdx, actionCode |-> actionCode,
         effectiveActionCode |-> r.effectiveActionCode,
         endInterview |-> r.endInterview,
         nextStateTopicIndex |-> r.nextStateTopicIndex,
         nextStateQuestionIndex |-> r.nextStateQuestionIndex,
         plan |-> closure.plan, streak |-> closure.streak, attempts |-> closure.attempts]

ClosureOf(call) == AskClosure(call.plan, call.streak, call.attempts)

\* the type callInterviewerLlm hands back for the type the model produced
InterviewerType(actionCode, rawType) ==
    IF actionCode = END_INTERVIEW THEN "planned"
    ELSE IF rawType # "planned" /\ rawType # "follow-up" THEN "planned"
    ELSE rawType

RawTypes == {"planned", "follow-up", "other", "empty"}

\* parseLlmJson throws for an output without type and text that is too short
\* to be taken as plain text (the empty object), and callInterviewerLlm with it
InterviewerThrows(rawType) == rawType = "empty"

\* the planned action askQuestion forces when the streak limit is reached
ForcedNext(plan, topicIdx, questionIdx) ==
    IF QuestionTruthy(plan, topicIdx, questionIdx + 1)
    THEN [topicIdx |-> topicIdx, questionIdx |-> questionIdx + 1,
          actionCode |-> NEXT_QUESTION, endOfPlan |-> FALSE]
    ELSE [topicIdx |-> topicIdx + 1, questionIdx |-> 0,
          actionCode |-> NEXT_TOPIC, endOfPlan |-> ~HasTopic(plan, topicIdx + 1)]

\* isLoading when the overriding askQuestion returns: the nested askQuestion
\* has set it, the finally block of the overriding call clears it
LoadingAfterOverride == FALSE

\* the call for the closing statement and the speech synthesis that
\* askQuestion awaits after it has set ENDED
FinalCall == [kind |-> "final"]

SpeechCall == [kind |-> "speech"]

\* a first turn that asks for a repetition
FirstTurnRepeat == [topicIdx |-> 0, questionIdx |-> 0, actionCode |-> REPEAT_QUESTION]

\* the arguments of the askQuestion call that opens the interview
FirstTurn == [topicIdx |-> 0, questionIdx |-> 0, actionCode |-> NEXT_QUESTION]

\* the useEffect on PLANNING_COMPLETE
StartEffect ==
    /\ interviewState = "PLANNING_COMPLETE"
    /\ interviewPlan # Null
    /\ interviewState' = "IN_PROGRESS"
    /\ currentTopicIndex' = 0
    /\ currentQuestionIndex' = 0
    /\ currentQuestionAttempts' = 0
    /\ isFollowUpActive' = FALSE
    /\ pausedState' = Null
    /\ currentFollowUpStreak' = 0
    /\ isLoading' = TRUE
    /\ LET first == InterviewerCall(
                        AskClosure(interviewPlan, currentFollowUpStreak,
                                   currentQuestionAttempts),
                        FirstTurn.topicIdx, FirstTurn.questionIdx,
                        FirstTurn.actionCode)
       IN  /\ inflight' = Issue(first)
           /\ last' = Step("startEffect", NoCall, "none", first)
    /\ UNCHANGED <<interviewPlan, interviewLog, sessions,
                   lastInterviewerMessage, turnText, answered, unassessed, walk>>

\* a catch block that leaves the phase as it is
AskCaughtSilently(call, cause) ==
    /\ inflight' = Settle(call)
    /\ isLoading' = FALSE
    /\ last' = Step("interviewerReturn", call, cause, NoCall)
    /\ UNCHANGED <<currentTopicIndex, currentQuestionIndex, currentQuestionAttempts,
                   isFollowUpActive, pausedState, currentFollowUpStreak, interviewState>>

\* the catch and finally blocks of askQuestion
AskCaught(call, cause) ==
    /\ inflight' = Settle(call)
    /\ interviewState' = "ENDED"
    /\ isLoading' = FALSE
    /\ last' = Step("interviewerReturn", call, cause, NoCall)
    /\ UNCHANGED <<currentTopicIndex, currentQuestionIndex, currentQuestionAttempts,
                   isFollowUpActive, pausedState, currentFollowUpStreak>>

\* askQuestion after the request of callInterviewerLlm has failed
InterviewerFails(call) ==
    /\ call \in InFlight("interviewer")
    /\ AskCaught(call, "error")
    /\ UNCHANGED <<interviewPlan, interviewLog, sessions,
                   lastInterviewerMessage, turnText, answered, unassessed, walk>>

\* a follow-up entered with the streak started afresh
EnterFollowUpFresh(call) ==
    /\ currentFollowUpStreak' = 1
    /\ pausedState' = [topicIndex |-> call.topicIdx, questionIndex |-> call.questionIdx,
                       attempts |-> call.attempts,
                       resumingActionCode |-> call.effectiveActionCode]
    /\ isFollowUpActive' = TRUE
    /\ isLoading' = FALSE
    /\ inflight' = Settle(call)
    /\ last' = Step("interviewerReturn", call, "follow-up", NoCall)
    /\ UNCHANGED <<currentTopicIndex, currentQuestionIndex, currentQuestionAttempts,
                   interviewState>>

\* askQuestion: the model asked a follow-up and the streak allows it
EnterFollowUp(call) ==
    /\ currentFollowUpStreak' = currentFollowUpStreak + 1
    /\ pausedState' = [topicIndex |-> call.topicIdx, questionIndex |-> call.questionIdx,
                       attempts |-> call.attempts,
                       resumingActionCode |-> call.effectiveActionCode]
    /\ isFollowUpActive' = TRUE
    /\ isLoading' = FALSE
    /\ inflight' = Settle(call)
    /\ last' = Step("interviewerReturn", call, "follow-up", NoCall)
    /\ UNCHANGED <<currentTopicIndex, currentQuestionIndex, currentQuestionAttempts,
                   interviewState>>

\* askQuestion: the model asked a follow-up at the streak limit
OverrideFollowUp(call) ==
    LET f == ForcedNext(call.plan, call.topicIdx, call.questionIdx)
    IN  /\ isFollowUpActive' = FALSE
        /\ pausedState' = Null
        /\ currentFollowUpStreak' = 0
        /\ IF f.endOfPlan
           THEN /\ interviewState' = "ENDED"
                /\ inflight' = Settle(call) (+) SetToBag({FinalCall})
                /\ last' = Step("interviewerReturn", call, "follow-up", FinalCall)
                /\ UNCHANGED <<currentTopicIndex, currentQuestionIndex, isLoading>>
           ELSE LET nested == InterviewerCall(ClosureOf(call), f.topicIdx,
                                              f.questionIdx, f.actionCode)
                IN  /\ currentTopicIndex' = f.topicIdx
                    /\ currentQuestionIndex' = f.questionIdx
                    /\ inflight' = Settle(call) (+) SetToBag({nested})
                    /\ last' = Step("interviewerReturn", call, "follow-up", nested)
                    /\ isLoading' = LoadingAfterOverride
                    /\ UNCHANGED interviewState
        /\ UNCHANGED currentQuestionAttempts

\* the planned branch ending the interview only when the plan is exhausted
PlannedTurnGoesOn(call, kind, speech) ==
    /\ currentFollowUpStreak' = 0
    /\ isFollowUpActive' = FALSE
    /\ pausedState' = Null
    /\ currentQuestionAttempts' =
          IF call.effectiveActionCode \in {NEXT_QUESTION, NEXT_TOPIC}
          THEN 0 ELSE currentQuestionAttempts
    /\ IF call.endInterview
       THEN /\ interviewState' = "ENDED"
            /\ IF speech
               THEN /\ inflight' = Settle(call) (+) SetToBag({SpeechCall})
                    /\ last' = Step("interviewerReturn", call, kind, SpeechCall)
                    /\ UNCHANGED isLoading
               ELSE /\ inflight' = Settle(call)
                    /\ last' = Step("interviewerReturn", call, kind, NoCall)
                    /\ isLoading' = FALSE
            /\ UNCHANGED <<currentTopicIndex, currentQuestionIndex>>
       ELSE /\ speech = FALSE
            /\ currentTopicIndex' = call.nextStateTopicIndex
            /\ currentQuestionIndex' = call.nextStateQuestionIndex
            /\ inflight' = Settle(call)
            /\ last' = Step("interviewerReturn", call, kind, NoCall)
            /\ isLoading' = FALSE
            /\ UNCHANGED interviewState

\* askQuestion: the planned branch
PlannedTurn(call, kind, speech) ==
    /\ currentFollowUpStreak' = 0
    /\ isFollowUpActive' = FALSE
    /\ pausedState' = Null
    /\ currentQuestionAttempts' =
          IF call.effectiveActionCode \in {NEXT_QUESTION, NEXT_TOPIC}
          THEN 0 ELSE currentQuestionAttempts
    /\ IF call.endInterview \/ call.effectiveActionCode = END_INTERVIEW
       THEN /\ interviewState' = "ENDED"
            /\ IF speech
               THEN /\ inflight' = Settle(call) (+) SetToBag({SpeechCall})
                    /\ last' = Step("interviewerReturn", call, kind, SpeechCall)
                    /\ UNCHANGED isLoading
               ELSE /\ inflight' = Settle(call)
                    /\ last' = Step("interviewerReturn", call, kind, NoCall)
                    /\ isLoading' = FALSE
            /\ UNCHANGED <<currentTopicIndex, currentQuestionIndex>>
       ELSE /\ speech = FALSE
            /\ currentTopicIndex' = call.nextStateTopicIndex
            /\ currentQuestionIndex' = call.nextStateQuestionIndex
            /\ inflight' = Settle(call)
            /\ last' = Step("interviewerReturn", call, kind, NoCall)
            /\ isLoading' = FALSE
            /\ UNCHANGED interviewState

\* an utterance displayed whatever the text
DisplayedAlways(text) == TRUE

\* askQuestion displays the text and keeps it in lastInterviewerMessage when it
\* is not empty (text is TRUE for a text that is non-empty after trimming)
Displayed(text) == text

\* askQuestion after callInterviewerLlm has returned: the type and the text of
\* the output, and whether speech is generated for a closing statement
InterviewerReturn(call, rawType, text, speech) ==
    LET type == InterviewerType(call.effectiveActionCode, rawType)
    IN  /\ call \in InFlight("interviewer")
        /\ lastInterviewerMessage' =
              IF InterviewerThrows(rawType) THEN lastInterviewerMessage
              ELSE Displayed(text)
        /\ turnText' = IF InterviewerThrows(rawType) THEN turnText ELSE text
        /\ IF InterviewerThrows(rawType)
           THEN /\ speech = FALSE
                /\ AskCaught(call, rawType)
           ELSE IF type = "follow-up" /\ call.effectiveActionCode # END_INTERVIEW
           THEN /\ speech = FALSE
                /\ IF call.streak < MAX_FOLLOW_UP_STREAK
                   THEN EnterFollowUp(call)
                   ELSE OverrideFollowUp(call)
           ELSE PlannedTurn(call, IF rawType = "other" THEN "other" ELSE "planned",
                            speech)
        /\ walk' = IF type = "follow-up" THEN -1 ELSE walk
        /\ UNCHANGED <<interviewPlan, interviewLog, sessions, answered, unassessed>>

\* askQuestion after the closing statement or the speech of the fallback
\* closing has settled
TailReturn(call) ==
    /\ call \in InFlight("final") \cup InFlight("speech")
    /\ inflight' = Settle(call)
    /\ isLoading' = FALSE
    /\ last' = Step("tailReturn", call, "none", NoCall)
    /\ UNCHANGED <<interviewPlan, currentTopicIndex, currentQuestionIndex,
                   currentQuestionAttempts, interviewLog, interviewState,
                   isFollowUpActive, pausedState, currentFollowUpStreak,
                   sessions, lastInterviewerMessage, turnText, answered, unassessed, walk>>

\* ----------------------------------------------------- handleSubmitAnswer
\* handleSubmitAnswer suspended at its await of callMonitorLlm, with the
\* state its closure captured, the position the answer is assessed against and
\* whether the answer it sends holds any text or code
MonitorCall(contextTopicIdx, contextQuestionIdx, combinedAnswer) ==
    [kind |-> "monitor", combinedAnswer |-> combinedAnswer,
     contextTopicIdx |-> contextTopicIdx, contextQuestionIdx |-> contextQuestionIdx,
     isFollowUpActive |-> isFollowUpActive, pausedState |-> pausedState,
     currentTopicIndex |-> currentTopicIndex,
     currentQuestionIndex |-> currentQuestionIndex,
     plan |-> interviewPlan, streak |-> currentFollowUpStreak,
     attempts |-> currentQuestionAttempts]

\* a guard that lets no answer through
AcceptsNever(answerGiven) == FALSE

\* a guard that does not look at the phase
AcceptsInAnyPhase(answerGiven) == answerGiven /\ ~isLoading

\* a guard that does not look at the answer
AcceptsEmptyAnswer(answerGiven) ==
    ~isLoading /\ interviewState = "IN_PROGRESS"

\* the guard of handleSubmitAnswer lets the answer through
Accepts(answerGiven) ==
    answerGiven /\ ~isLoading /\ interviewState = "IN_PROGRESS"

\* handleSubmitAnswer up to its await of callMonitorLlm
SubmitAnswer(answerGiven) ==
    /\ IF ~Accepts(answerGiven)
       THEN /\ last' = Step("submitSkipped", NoCall, "none", NoCall)
            /\ UNCHANGED <<isLoading, interviewState, inflight, answered, unassessed>>
       ELSE /\ answered' = answered + 1
            /\ IF isFollowUpActive /\ pausedState # Null
               THEN /\ inflight' = Issue(MonitorCall(pausedState.topicIndex,
                                                     pausedState.questionIndex,
                                                     answerGiven))
                    /\ isLoading' = TRUE
                    /\ last' = Step("submit", NoCall, "follow-up",
                                    MonitorCall(pausedState.topicIndex,
                                                pausedState.questionIndex,
                                                answerGiven))
                    /\ UNCHANGED <<interviewState, unassessed>>
               ELSE IF QuestionTruthy(interviewPlan, currentTopicIndex,
                                      currentQuestionIndex)
               THEN /\ inflight' = Issue(MonitorCall(currentTopicIndex,
                                                     currentQuestionIndex,
                                                     answerGiven))
                    /\ isLoading' = TRUE
                    /\ last' = Step("submit", NoCall, "planned",
                                    MonitorCall(currentTopicIndex,
                                                currentQuestionIndex,
                                                answerGiven))
                    /\ UNCHANGED <<interviewState, unassessed>>
               ELSE /\ isLoading' = FALSE
                    /\ interviewState' = "ENDED"
                    /\ unassessed' = unassessed + 1
                    /\ last' = Step("submit", NoCall, "no question", NoCall)
                    /\ UNCHANGED inflight
    /\ UNCHANGED <<interviewPlan, currentTopicIndex, currentQuestionIndex,
                   currentQuestionAttempts, interviewLog, isFollowUpActive,
                   pausedState, currentFollowUpStreak, sessions,
                   lastInterviewerMessage, turnText, walk>>

\* the result recorded for a callMonitorLlm that threw
MonitorError == 0 - 1

\* handleSubmitAnswer after callMonitorLlm has thrown
MonitorFails(call) ==
    /\ call \in InFlight("monitor")
    /\ inflight' = Settle(call)
    /\ isLoading' = FALSE
    /\ interviewState' = "ENDED"
    /\ unassessed' = unassessed + 1
    /\ last' = Step("monitorReturn", call, MonitorError, NoCall)
    /\ UNCHANGED <<interviewPlan, currentTopicIndex, currentQuestionIndex,
                   currentQuestionAttempts, interviewLog, isFollowUpActive,
                   pausedState, currentFollowUpStreak, sessions,
                   lastInterviewerMessage, turnText, answered, walk>>

\* an entry tagged planned whatever the answer was given to
LogEntryPlanned(call) ==
    [topicIndex |-> call.contextTopicIdx, questionIndex |-> call.contextQuestionIdx,
     type |-> "planned"]

\* the entry setInterviewLog appends: the position the assessment was asked
\* for, and the tag
LogEntry(call) ==
    [topicIndex |-> call.contextTopicIdx, questionIndex |-> call.contextQuestionIdx,
     type |-> IF call.isFollowUpActive THEN "follow-up" ELSE "planned"]

\* an update that puts the new entry in front
PrependLog(log, entry) == <<entry>> \o log

\* an append that drops an entry equal to the one before it
AppendLogOnce(log, entry) ==
    IF log # <<>> /\ log[Len(log)] = entry THEN log ELSE Append(log, entry)

\* setInterviewLog(prev => [...prev, entry])
AppendLog(log, entry) == Append(log, entry)

\* the planned step after a follow-up has been answered
ResumeNext(plan, paused) ==
    IF QuestionTruthy(plan, paused.topicIndex, paused.questionIndex + 1)
    THEN [topicIdx |-> paused.topicIndex, questionIdx |-> paused.questionIndex + 1,
          actionCode |-> NEXT_QUESTION]
    ELSE [topicIdx |-> paused.topicIndex + 1, questionIdx |-> 0,
          actionCode |-> IF HasTopic(plan, paused.topicIndex + 1)
                         THEN NEXT_TOPIC ELSE END_INTERVIEW]

\* attempts counted without a limit
GovernAttemptsOff(attempts, actionCode) ==
    IF actionCode = REPEAT_QUESTION \/ actionCode = CLARIFY_QUESTION
    THEN [counted |-> TRUE, attempts |-> attempts + 1, actionCode |-> actionCode]
    ELSE [counted |-> FALSE, attempts |-> attempts, actionCode |-> actionCode]

\* the attempt limit with its comparison slipped from >= to >
GovernAttemptsLate(attempts, actionCode) ==
    IF actionCode = REPEAT_QUESTION \/ actionCode = CLARIFY_QUESTION
    THEN [counted |-> TRUE, attempts |-> attempts + 1,
          actionCode |-> IF attempts + 1 > MAX_ATTEMPTS_PLANNED
                         THEN NEXT_QUESTION ELSE actionCode]
    ELSE [counted |-> FALSE, attempts |-> attempts, actionCode |-> actionCode]

\* the attempt limit applied to the action code of the monitor
GovernAttempts(attempts, actionCode) ==
    IF actionCode = REPEAT_QUESTION \/ actionCode = CLARIFY_QUESTION
    THEN [counted |-> TRUE, attempts |-> attempts + 1,
          actionCode |-> IF attempts + 1 >= MAX_ATTEMPTS_PLANNED
                         THEN NEXT_QUESTION ELSE actionCode]
    ELSE [counted |-> FALSE, attempts |-> attempts, actionCode |-> actionCode]

\* the switch with NEXT_QUESTION leaving the question index where it is
NextFromActionStuck(topicIndex, questionIndex, actionCode) ==
    IF actionCode = NEXT_TOPIC
    THEN [topicIdx |-> topicIndex + 1, questionIdx |-> 0, actionCode |-> actionCode]
    ELSE [topicIdx |-> topicIndex, questionIdx |-> questionIndex,
          actionCode |-> IF actionCode \in 1..3 THEN actionCode ELSE END_INTERVIEW]

\* the switch on nextActionCode
NextFromAction(topicIndex, questionIndex, actionCode) ==
    IF actionCode = REPEAT_QUESTION \/ actionCode = CLARIFY_QUESTION
    THEN [topicIdx |-> topicIndex, questionIdx |-> questionIndex, actionCode |-> actionCode]
    ELSE IF actionCode = NEXT_QUESTION
    THEN [topicIdx |-> topicIndex, questionIdx |-> questionIndex + 1,
          actionCode |-> actionCode]
    ELSE IF actionCode = NEXT_TOPIC
    THEN [topicIdx |-> topicIndex + 1, questionIdx |-> 0, actionCode |-> actionCode]
    ELSE [topicIdx |-> topicIndex, questionIdx |-> questionIndex,
          actionCode |-> END_INTERVIEW]

\* the action codes a monitor output can carry; 0 stands for every value
\* outside 1..5 (a missing actionCode included)
MonitorCodes == 0..5

\* the README walkthrough: the action codes of its six steps
Walkthrough == <<CLARIFY_QUESTION, NEXT_QUESTION, REPEAT_QUESTION, NEXT_TOPIC,
                 NEXT_QUESTION, END_INTERVIEW>>

WalkAfter(w, actionCode) ==
    IF w \in 0..(Len(Walkthrough) - 1)
    THEN (IF Walkthrough[w + 1] = actionCode THEN w + 1 ELSE -1)
    ELSE -1

\* the branch test with the follow-up case never taken
AnswersFollowUpNever(call) == FALSE

\* if (isFollowUpActive && pausedState), on the values the handler captured
AnswersFollowUp(call) == call.isFollowUpActive /\ call.pausedState # Null

\* handleSubmitAnswer after callMonitorLlm has returned
MonitorReturn(call, actionCode) ==
    /\ call \in InFlight("monitor")
    /\ interviewLog' = AppendLog(interviewLog, LogEntry(call))
    /\ IF AnswersFollowUp(call)
       THEN LET n == ResumeNext(call.plan, call.pausedState)
                ask == InterviewerCall(ClosureOf(call), n.topicIdx,
                                       n.questionIdx, n.actionCode)
            IN  /\ isFollowUpActive' = FALSE
                /\ pausedState' = Null
                /\ inflight' = Settle(call) (+) SetToBag({ask})
                /\ last' = Step("monitorReturn", call, actionCode, ask)
                /\ UNCHANGED currentQuestionAttempts
       ELSE LET g == GovernAttempts(call.attempts, actionCode)
                n == NextFromAction(call.currentTopicIndex,
                                    call.currentQuestionIndex, g.actionCode)
                ask == InterviewerCall(ClosureOf(call), n.topicIdx,
                                       n.questionIdx, n.actionCode)
            IN  /\ currentQuestionAttempts' =
                      IF g.counted THEN g.attempts ELSE currentQuestionAttempts
                /\ inflight' = Settle(call) (+) SetToBag({ask})
                /\ last' = Step("monitorReturn", call, actionCode, ask)
                /\ UNCHANGED <<isFollowUpActive, pausedState>>
    /\ isLoading' = TRUE
    /\ walk' = WalkAfter(walk, actionCode)
    /\ UNCHANGED <<interviewPlan, currentTopicIndex, currentQuestionIndex,
                   interviewState, currentFollowUpStreak, sessions,
                   lastInterviewerMessage, turnText, answered,
                   unassessed>>

\* ------------------------------------------------------------ the program
\* the effect on jobDetails after the component has mounted: it calls
\* handleStartInterview with the description the page was opened with
MountEffect ==
    /\ sessions = 0
    /\ \E descriptionOk \in BOOLEAN : StartInterview(descriptionOk)

\* the effect on jobDetails when the location state changes under the mounted
\* component: handleStartInterview runs again, whatever is in flight
JobDetailsEffect ==
    /\ sessions \in 1..(MaxSessions - 1)
    /\ \E descriptionOk \in BOOLEAN : StartInterview(descriptionOk)

\* turn outputs whose text is not empty
WithText == {TRUE}

\* the handler steps, for the plans the planner may return, the texts the turn
\* outputs may carry, and a bound on the answers and on the calls in flight
Program(plans, texts, maxAnswers) ==
    \/ MountEffect
    \/ \E call \in InFlight("planner"), failed \in BOOLEAN, plan \in plans :
          PlannerReturn(call, failed, plan)
    \/ StartEffect
    \/ \E call \in InFlight("interviewer") : InterviewerFails(call)
    \/ \E call \in InFlight("interviewer"), rawType \in RawTypes,
          text \in texts, speech \in BOOLEAN :
          InterviewerReturn(call, rawType, text, speech)
    \/ \E call \in InFlight("final") \cup InFlight("speech") : TailReturn(call)
    \/ /\ answered < maxAnswers
       /\ BagCardinality(inflight) < MaxInFlight
       /\ \E answerGiven \in BOOLEAN : SubmitAnswer(answerGiven)
    \/ \E call \in InFlight("monitor") : MonitorFails(call)
    \/ \E call \in InFlight("monitor"), actionCode \in MonitorCodes :
          MonitorReturn(call, actionCode)

Next == Program(RawPlans, BOOLEAN, MaxAnswers)

Spec == Init /\ [][Next]_vars

\* the session of the README walkthrough: its plan, every turn output and
\* every assessment
NextWalk == Program({ReadmePlan}, WithText, MaxWalkAnswers)

SpecWalk == Init /\ [][NextWalk]_vars

\* a session on the long plan
NextDeep == Program({DeepPlan}, WithText, MaxDeepAnswers)

SpecDeep == Init /\ [][NextDeep]_vars

\* a session on the README plan in which every call settles and the candidate
\* answers whenever an answer is awaited
NextLive == Program({ReadmePlan}, WithText, MaxLiveAnswers)

\* some call in flight settles, or the effect that starts the interview runs
Settling ==
    \/ \E call \in InFlight("planner"), failed \in BOOLEAN :
          PlannerReturn(call, failed, ReadmePlan)
    \/ StartEffect
    \/ \E call \in InFlight("interviewer") : InterviewerFails(call)
    \/ \E call \in InFlight("interviewer"), rawType \in RawTypes,
          text \in WithText, speech \in BOOLEAN :
          InterviewerReturn(call, rawType, text, speech)
    \/ \E call \in InFlight("final") \cup InFlight("speech") : TailReturn(call)
    \/ \E call \in InFlight("monitor") : MonitorFails(call)
    \/ \E call \in InFlight("monitor"), actionCode \in MonitorCodes :
          MonitorReturn(call, actionCode)

\* the candidate submits a non-empty answer that handleSubmitAnswer accepts
Answering ==
    /\ answered < MaxLiveAnswers
    /\ BagCardinality(inflight) < MaxInFlight
    /\ Accepts(TRUE)
    /\ SubmitAnswer(TRUE)

SpecLive == Init /\ [][NextLive]_vars /\ WF_vars(Settling) /\ WF_vars(Answering)

\* askQuestion called for any position with any action code, on any accepted
\* plan: the state when it is suspended at its await of callInterviewerLlm
InitAsk ==
    \E plan \in {p \in RawPlans : PlanIsValid(p)},
       topicIdx \in 0..MaxTopics, questionIdx \in 0..(MaxQuestions + 1),
       actionCode \in ACTION_CODES,
       streak \in {0, MAX_FOLLOW_UP_STREAK}, attempts \in {0, MAX_ATTEMPTS_PLANNED - 1} :
        LET ask == InterviewerCall(AskClosure(plan, streak, attempts),
                                   topicIdx, questionIdx, actionCode)
        IN  /\ interviewPlan = plan
            /\ currentTopicIndex = 0
            /\ currentQuestionIndex = 0
            /\ currentQuestionAttempts = attempts
            /\ interviewLog = <<>>
            /\ interviewState = "IN_PROGRESS"
            /\ isLoading = TRUE
            /\ isFollowUpActive = FALSE
            /\ pausedState = Null
            /\ currentFollowUpStreak = streak
            /\ inflight = SetToBag({ask})
            /\ lastInterviewerMessage = FALSE
            /\ turnText = FALSE
            /\ sessions = 1
            /\ answered = 0
            /\ unassessed = 0
            /\ walk = 0 - 1
            /\ last = Step("ask", NoCall, "none", ask)

NextAsk ==
    \/ \E call \in InFlight("interviewer") : InterviewerFails(call)
    \/ \E call \in InFlight("interviewer"), rawType \in RawTypes,
          text \in WithText, speech \in BOOLEAN :
          InterviewerReturn(call, rawType, text, speech)
    \/ \E call \in InFlight("final") \cup InFlight("speech") : TailReturn(call)

SpecAsk == InitAsk /\ [][NextAsk]_vars

\* the page on the README plan with the job details replaced while it is open
NextRestart == Program({ReadmePlan}, WithText, MaxRestartAnswers) \/ JobDetailsEffect

SpecRestart == Init /\ [][NextRestart]_vars

\* ================================================================ claims
\* the turn-text and assessment calls in flight
CollaboratorCalls ==
    [c \in InFlight("interviewer") \cup InFlight("monitor") \cup InFlight("final")
        |-> CopiesIn(c, inflight)]

\* the step taken last settled an assessment of a planned answer
PlannedAssessed ==
    /\ last.op = "monitorReturn"
    /\ last.res # MonitorError
    /\ ~(last.call.isFollowUpActive /\ last.call.pausedState # Null)

\* the step taken last settled an assessment of a follow-up answer
FollowUpAssessed ==
    /\ last.op = "monitorReturn"
    /\ last.res # MonitorError
    /\ last.call.isFollowUpActive /\ last.call.pausedState # Null

\* the turn request the step taken last issued
Requests(topicIdx, questionIdx, actionCode) ==
    /\ last.issued.kind = "interviewer"
    /\ last.issued.topicIdx = topicIdx
    /\ last.issued.questionIdx = questionIdx
    /\ last.issued.actionCode = actionCode

\* C1: isLoading is true whenever a turn-text or assessment call is in
\* flight, and at most one such call is in flight at any time.
C1_BusyWhileCallInFlight ==
    /\ BagCardinality(CollaboratorCalls) > 0 => isLoading
    /\ BagCardinality(CollaboratorCalls) <= 1

C3_TopicLeftOnlyWhenExhausted ==
    PlannedAssessed =>
        LET t == last.call.currentTopicIndex
            q == last.call.currentQuestionIndex
            more == q + 1 < QuestionCount(last.call.plan, t)
        IN  /\ (last.res = NEXT_TOPIC /\ more) =>
                  /\ last.issued.effectiveActionCode = NEXT_QUESTION
                  /\ last.issued.nextStateTopicIndex = t
                  /\ last.issued.nextStateQuestionIndex = q + 1
            /\ last.issued.nextStateTopicIndex = t + 1 => ~more

\* C4: after the answer to a follow-up paused at (t, q) is assessed, the
\* follow-up state is cleared and the turn request issued is NextQuestion at
\* (t, q+1) if the plan has that question, else NextTopic at (t+1, 0) if the
\* plan has topic t+1, else End, whatever the action code of the assessment.
C4_ResumeStepsForward ==
    FollowUpAssessed =>
        LET plan == last.call.plan
            t == last.call.pausedState.topicIndex
            q == last.call.pausedState.questionIndex
        IN  /\ ~isFollowUpActive
            /\ pausedState = Null
            /\ last.issued.kind = "interviewer"
            /\ IF q + 1 < QuestionCount(plan, t)
               THEN Requests(t, q + 1, NEXT_QUESTION)
               ELSE IF HasTopic(plan, t + 1)
               THEN Requests(t + 1, 0, NEXT_TOPIC)
               ELSE /\ last.issued.actionCode = END_INTERVIEW
                    /\ last.issued.effectiveActionCode = END_INTERVIEW

\* the step taken last settled a turn-text call whose output was a follow-up
FollowUpReturned ==
    /\ last.op = "interviewerReturn"
    /\ last.res = "follow-up"

\* C5: a follow-up returned while the streak counter is at
\* MAX_FOLLOW_UP_STREAK is not entered (no follow-up state, no paused state);
\* the turn request the plan position dictates is issued instead:
\* NextQuestion if the topic has a further question, else NextTopic if there
\* is a further topic, else the interview is ended.
C5_OverrideAtCeiling ==
    [][(FollowUpReturned' /\ currentFollowUpStreak = MAX_FOLLOW_UP_STREAK) =>
          LET plan == last'.call.plan
              t == last'.call.topicIdx
              q == last'.call.questionIdx
          IN  /\ ~isFollowUpActive'
              /\ pausedState' = Null
              /\ IF q + 1 < QuestionCount(plan, t)
                 THEN /\ last'.issued.kind = "interviewer"
                      /\ last'.issued.topicIdx = t
                      /\ last'.issued.questionIdx = q + 1
                      /\ last'.issued.actionCode = NEXT_QUESTION
                 ELSE IF HasTopic(plan, t + 1)
                 THEN /\ last'.issued.kind = "interviewer"
                      /\ last'.issued.topicIdx = t + 1
                      /\ last'.issued.questionIdx = 0
                      /\ last'.issued.actionCode = NEXT_TOPIC
                 ELSE interviewState' = "ENDED"]_vars

\* C6: the follow-up streak stays within 0..MAX_FOLLOW_UP_STREAK.
C6_StreakWithinCeiling ==
    currentFollowUpStreak \in 0..MAX_FOLLOW_UP_STREAK

PlannedAt(topicIndex, questionIndex) ==
    [topicIndex |-> topicIndex, questionIndex |-> questionIndex, type |-> "planned"]

ExhaustedLastTopic(call) ==
    /\ call.kind = "interviewer"
    /\ HasTopic(call.plan, call.topicIdx)
    /\ ~HasTopic(call.plan, call.topicIdx + 1)
    /\ call.questionIdx >= QuestionCount(call.plan, call.topicIdx)

\* C9: a turn request for an exhausted position of the last topic resolves
\* to END_INTERVIEW whatever action code was requested, and the phase is
\* ENDED once its turn-text call has settled.
C9_ExhaustedPlanEnds ==
    /\ \A call \in InFlight("interviewer") :
          ExhaustedLastTopic(call) =>
              call.effectiveActionCode = END_INTERVIEW /\ call.endInterview
    /\ (last.op = "interviewerReturn" /\ ExhaustedLastTopic(last.call)) =>
          interviewState = "ENDED"

\* C9 witness: a Repeat requested for an exhausted position of the last
\* topic has come back with a turn output and the phase is ENDED.
C9_Witness ==
    /\ last.op = "interviewerReturn"
    /\ last.res = "planned"
    /\ ExhaustedLastTopic(last.call)
    /\ last.call.actionCode = REPEAT_QUESTION
    /\ interviewState = "ENDED"

\* no planned answer has been taken yet at the current position
FreshPosition ==
    /\ \A i \in 1..Len(interviewLog) :
          interviewLog[i] # PlannedAt(currentTopicIndex, currentQuestionIndex)
    /\ \A call \in InFlight("monitor") :
          LogEntry(call) # PlannedAt(currentTopicIndex, currentQuestionIndex)

\* C10: in every state in which an answer to a planned question that has
\* not been answered before can be submitted, currentQuestionAttempts is 0.
C10_AttemptsResetAtNewPosition ==
    (Accepts(TRUE) /\ ~isFollowUpActive /\ FreshPosition) =>
        currentQuestionAttempts = 0

\* C11: the step that settles the assessment of an answer submitted while a
\* follow-up was active leaves currentQuestionAttempts as it was, whatever
\* action code the assessment carries.
C11_FollowUpAnswerKeepsAttempts ==
    [][FollowUpAssessed' => currentQuestionAttempts' = currentQuestionAttempts]_vars

\* C11 witness: a follow-up answer has been assessed Repeat while the paused
\* question had one attempt counted, and the count is still one.
C11_Witness ==
    /\ FollowUpAssessed
    /\ last.res = REPEAT_QUESTION
    /\ last.call.pausedState.attempts = 1
    /\ currentQuestionAttempts = 1

\* C12: once interviewState is ENDED, every later step of the same session
\* leaves it ENDED and leaves the log and the planned position as they are;
\* no answer is accepted.
C12_EndedIsAbsorbing ==
    [][(interviewState = "ENDED" /\ sessions' = sessions) =>
          /\ interviewState' = "ENDED"
          /\ interviewLog' = interviewLog
          /\ currentTopicIndex' = currentTopicIndex
          /\ currentQuestionIndex' = currentQuestionIndex
          /\ answered' = answered]_vars

\* C13: currentQuestionAttempts stays within 0..MAX_ATTEMPTS_PLANNED.
C13_AttemptsWithinCeiling ==
    currentQuestionAttempts \in 0..MAX_ATTEMPTS_PLANNED

\* C14: when every call settles and the candidate answers whenever an answer
\* is awaited, a session that is IN_PROGRESS eventually is ENDED, whatever
\* the action codes and the turn types are.
C14_EventuallyEnded ==
    (interviewState = "IN_PROGRESS") ~> (interviewState = "ENDED")

\* C14 witness: a session in which every answer was assessed Repeat as long
\* as the attempt limit allowed, at every question of the plan, has ended.
C14_Witness ==
    /\ interviewState = "ENDED"
    /\ inflight = EmptyBag
    /\ interviewPlan = ReadmePlan
    /\ Len(interviewLog) = 15
    /\ \A i \in 1..14 : interviewLog[i].type = "planned"
    /\ \A i \in 1..5 : /\ interviewLog[3 * i] = interviewLog[3 * i - 1]
                        /\ interviewLog[3 * i] = interviewLog[3 * i - 2]

\* C15: an assessment whose actionCode is outside 1..5 makes the next turn
\* request END_INTERVIEW, for a planned answer and for a follow-up answer.
C15_InvalidAssessmentEnds ==
    (last.op = "monitorReturn" /\ last.res = 0) =>
        /\ last.issued.kind = "interviewer"
        /\ last.issued.actionCode = END_INTERVIEW
        /\ last.issued.effectiveActionCode = END_INTERVIEW

\* C16: a turn output that is invalid (a type that is neither planned nor
\* follow-up, or an empty object) is handled as a planned turn: no follow-up
\* state, the streak reset, the position of the request taken, and the phase
\* still IN_PROGRESS unless the effective action is END_INTERVIEW.
C16_InvalidTurnOutputIsPlanned ==
    (last.op = "interviewerReturn" /\ last.res \in {"other", "empty"}) =>
        /\ ~isFollowUpActive
        /\ pausedState = Null
        /\ currentFollowUpStreak = 0
        /\ IF last.call.effectiveActionCode = END_INTERVIEW
           THEN interviewState = "ENDED"
           ELSE /\ interviewState = "IN_PROGRESS"
                /\ currentTopicIndex = last.call.nextStateTopicIndex
                /\ currentQuestionIndex = last.call.nextStateQuestionIndex

\* the step taken last was the failure of a turn-text call
TurnTextFailed ==
    /\ last.op = "interviewerReturn"
    /\ last.res \in {"error", "empty"}

\* the step taken last was the failure of an assessment call
AssessmentFailed ==
    /\ last.op = "monitorReturn"
    /\ last.res = MonitorError

\* C17: a turn-text call or an assessment call that fails while the phase is
\* IN_PROGRESS leaves the phase ENDED and isLoading false, and a failed
\* assessment leaves the log as it was.
C17_FailureEnds ==
    [][/\ (interviewState = "IN_PROGRESS" /\ (TurnTextFailed' \/ AssessmentFailed')) =>
            interviewState' = "ENDED" /\ ~isLoading'
       /\ AssessmentFailed' => interviewLog' = interviewLog]_vars

\* C17 witness: the assessment of a follow-up answer has failed after an
\* earlier answer was logged; the phase is ENDED and isLoading is false.
C17_Witness ==
    /\ AssessmentFailed
    /\ last.call.isFollowUpActive
    /\ interviewLog # <<>>
    /\ interviewState = "ENDED"
    /\ ~isLoading

\* the step taken last entered a follow-up
FollowUpEntered == FollowUpReturned /\ last.issued = NoCall

\* the step taken last overrode a follow-up at the streak limit
FollowUpOverridden == FollowUpReturned /\ last.issued # NoCall

\* the step taken last handled a turn output as a planned turn
PlannedReturned ==
    /\ last.op = "interviewerReturn"
    /\ last.res \in {"planned", "other"}

\* C18 as stated: the streak never decreases while a follow-up stays active,
\* and it is 0 right after the answer to a follow-up has been assessed and
\* right after a forced override.
C18_StreakZeroOnExit ==
    [][/\ (isFollowUpActive /\ isFollowUpActive') =>
            currentFollowUpStreak' >= currentFollowUpStreak
       /\ FollowUpAssessed' => currentFollowUpStreak' = 0
       /\ FollowUpOverridden' => currentFollowUpStreak' = 0]_vars

\* C18 amended: the streak never decreases while a follow-up stays active and
\* entering a follow-up raises it by one; the assessment of a follow-up
\* answer clears the follow-up state and leaves the streak as it is; the
\* streak is 0 right after a forced override and right after a turn output
\* handled as a planned turn.
C18_StreakKeptOnExit ==
    [][/\ (isFollowUpActive /\ isFollowUpActive') =>
            currentFollowUpStreak' >= currentFollowUpStreak
       /\ FollowUpEntered' => currentFollowUpStreak' = currentFollowUpStreak + 1
       /\ FollowUpAssessed' =>
            ~isFollowUpActive' /\ currentFollowUpStreak' = currentFollowUpStreak
       /\ FollowUpOverridden' => currentFollowUpStreak' = 0
       /\ PlannedReturned' => currentFollowUpStreak' = 0]_vars

\* C18 witness: the answer to the second follow-up in a row has been
\* assessed and the streak is still 2.
C18_Witness ==
    /\ FollowUpAssessed
    /\ ~isFollowUpActive
    /\ currentFollowUpStreak = 2

\* C19: isFollowUpActive is true exactly when pausedState is present, and a
\* follow-up is entered only from a state without an active follow-up, so a
\* paused position is never overwritten.
C19_OneFollowUpAtATime ==
    /\ [](isFollowUpActive <=> pausedState # Null)
    /\ [][FollowUpEntered' => (~isFollowUpActive /\ pausedState = Null)]_vars

\* the assessment calls in flight for the planned position (t, q)
AssessmentsInFlight(t, q) ==
    [c \in {m \in InFlight("monitor") :
                m.contextTopicIdx = t /\ m.contextQuestionIdx = q}
        |-> CopiesIn(c, inflight)]

\* C20: at no time are two assessment calls for the same planned position in
\* flight, whatever the interleaving of submissions and completions.
C20_OneAssessmentPerPosition ==
    \A m \in InFlight("monitor") :
        BagCardinality(AssessmentsInFlight(m.contextTopicIdx, m.contextQuestionIdx)) <= 1

\* what a session owns: plan, position, attempt count, follow-up state, log
\* and phase
SessionState ==
    <<interviewPlan, currentTopicIndex, currentQuestionIndex,
      currentQuestionAttempts, isFollowUpActive, pausedState, interviewLog,
      interviewState>>

\* C21: the late result of a call of a superseded session is discarded.  While
\* a later session is in phase PLANNING every turn-text or assessment call in
\* flight belongs to an earlier session, and once the phase is no longer
\* PLANNING no session is waiting for a plan; the result of such a call changes
\* neither plan, position, attempt count, follow-up state, log nor phase.
C21_StaleResultDiscarded ==
    [][/\ (/\ sessions > 1
           /\ interviewState = "PLANNING"
           /\ last'.op \in {"interviewerReturn", "monitorReturn"})
          => UNCHANGED SessionState
       /\ (/\ sessions > 1
           /\ interviewState # "PLANNING"
           /\ last'.op = "plannerReturn")
          => UNCHANGED SessionState]_vars

\* the step taken last settled a turn request whose output was received
TurnReturned ==
    /\ last.op = "interviewerReturn"
    /\ last.res \in {"planned", "follow-up", "other"}

PlanStored ==
    /\ interviewPlan # Null
    /\ Len(interviewPlan.topics) >= 1
    /\ \A t \in 1..Len(interviewPlan.topics) :
          /\ interviewPlan.topics[t].name
          /\ Len(interviewPlan.topics[t].questions) >= 1

\* the phase is back at SETUP, not busy, with no plan, no turn request and an
\* empty log
BackToSetup ==
    /\ interviewState = "SETUP"
    /\ ~isLoading
    /\ interviewPlan = Null
    /\ InFlight("interviewer") = {}
    /\ last.issued = NoCall
    /\ interviewLog = <<>>

C24_NoEmptyQuestionAccepted ==
    interviewPlan # Null => Blanks(interviewPlan) = 0

\* the step taken last received an assessment
Assessed ==
    /\ last.op = "monitorReturn"
    /\ last.res # MonitorError

\* C25: the log changes only by an entry appended at its end when an
\* assessment completes, and by being emptied when handleStartInterview starts
\* a session; what it held before stays as it was, in the same order.
C25_LogAppendOnly ==
    [][/\ Assessed'
          => interviewLog' = Append(interviewLog, LogEntry(last'.call))
       /\ last'.op = "start" => interviewLog' = <<>>
       /\ ~(Assessed' \/ last'.op = "start") => interviewLog' = interviewLog]_vars

\* an assessment has just added a third entry to a log whose entries differ
C25_Witness ==
    /\ Assessed
    /\ Len(interviewLog) = 3
    /\ interviewLog[1] # interviewLog[2]
    /\ interviewLog[3] = LogEntry(last.call)

\* the step taken last received a turn output whose text is empty
BlankTurnReturned == TurnReturned /\ ~turnText

\* C26: a turn output with empty text applies the transition of its kind: a
\* planned output resets the streak and the follow-up state, resets the
\* attempts for NEXT_QUESTION and NEXT_TOPIC, and moves the position to the
\* one resolved (or ends the interview); a follow-up below the streak limit is
\* entered with the planned position paused and the streak raised by one.
\* Only the utterance is skipped: lastInterviewerMessage holds no text.
C26_EmptyTextStillTransitions ==
    [][BlankTurnReturned' =>
          /\ ~lastInterviewerMessage'
          /\ last'.res \in {"planned", "other"} =>
                /\ currentFollowUpStreak' = 0
                /\ ~isFollowUpActive' /\ pausedState' = Null
                /\ currentQuestionAttempts' =
                      IF last'.call.effectiveActionCode \in {NEXT_QUESTION, NEXT_TOPIC}
                      THEN 0 ELSE currentQuestionAttempts
                /\ IF last'.call.effectiveActionCode = END_INTERVIEW
                   THEN interviewState' = "ENDED"
                   ELSE /\ currentTopicIndex' = last'.call.nextStateTopicIndex
                        /\ currentQuestionIndex' = last'.call.nextStateQuestionIndex
                        /\ interviewState' = interviewState
          /\ (last'.res = "follow-up" /\ last'.call.streak < MAX_FOLLOW_UP_STREAK) =>
                /\ isFollowUpActive'
                /\ pausedState' # Null
                /\ pausedState'.topicIndex = last'.call.topicIdx
                /\ pausedState'.questionIndex = last'.call.questionIdx
                /\ currentFollowUpStreak' = currentFollowUpStreak + 1]_vars

\* after an assessment, a planned output with empty text has moved the
\* position to the second question
C26_Witness ==
    /\ BlankTurnReturned
    /\ last.res = "planned"
    /\ last.call.effectiveActionCode = NEXT_QUESTION
    /\ currentQuestionIndex = 1
    /\ interviewLog # <<>>

\* the phase changes of a session
PhaseChanges ==
    {<<"SETUP", "PLANNING">>, <<"PLANNING", "PLANNING_COMPLETE">>,
     <<"PLANNING", "SETUP">>, <<"PLANNING_COMPLETE", "IN_PROGRESS">>,
     <<"IN_PROGRESS", "ENDED">>}

PlannedPresented ==
    /\ PlannedReturned
    /\ last.call.effectiveActionCode # END_INTERVIEW

\* the turn request was about to ask a planned question for the first time
AsksNewQuestion(effectiveActionCode) ==
    effectiveActionCode \in {NEXT_QUESTION, NEXT_TOPIC}

\* the position of the planned question a turn request for (t, q) presents
Presents(plan, t, q, actionCode) ==
    LET r == Resolve(plan, t, q, actionCode)
    IN  <<r.nextStateTopicIndex, r.nextStateQuestionIndex>>

\* C29: when a follow-up came back instead of a planned question that was to
\* be asked for the first time, the planned turn presented next is that
\* question, both after the answer to the follow-up has been assessed and
\* after the follow-up has been overridden at the streak limit.
C29_FollowUpSkipsNoQuestion ==
    [][/\ (/\ FollowUpAssessed
           /\ AsksNewQuestion(last.call.pausedState.resumingActionCode)
           /\ PlannedPresented'
           /\ last'.call = last.issued)
          => <<currentTopicIndex', currentQuestionIndex'>> =
                Presents(last.call.plan, last.call.pausedState.topicIndex,
                         last.call.pausedState.questionIndex,
                         last.call.pausedState.resumingActionCode)
       /\ (/\ FollowUpOverridden
           /\ AsksNewQuestion(last.call.effectiveActionCode)
           /\ PlannedPresented'
           /\ last'.call = last.issued)
          => <<currentTopicIndex', currentQuestionIndex'>> =
                <<last.call.nextStateTopicIndex, last.call.nextStateQuestionIndex>>]_vars

\* C30: after a forced override has reset the streak, a follow-up returned
\* for the turn request the override issued is judged against streak 0: it is
\* entered as a digression and the streak becomes 1.
C30_CeilingAfreshAfterOverride ==
    [][(/\ FollowUpOverridden
        /\ FollowUpReturned'
        /\ last'.call = last.issued)
          => (FollowUpEntered' /\ currentFollowUpStreak' = 1)]_vars

\* the step taken last assessed, with Repeat or Clarify, an answer to the last
\* question of its topic given with the attempt count one short of the limit
LastAttemptAtTopicEnd ==
    /\ PlannedAssessed
    /\ last.res \in {REPEAT_QUESTION, CLARIFY_QUESTION}
    /\ last.call.attempts = MAX_ATTEMPTS_PLANNED - 1
    /\ HasTopic(last.call.plan, last.call.currentTopicIndex)
    /\ last.call.currentQuestionIndex + 1 =
          QuestionCount(last.call.plan, last.call.currentTopicIndex)

\* C31: at the last question of a topic with the attempt count one short of
\* the limit, a Repeat or Clarify assessment yields a turn request whose
\* effective action is NEXT_TOPIC for the first question of the next topic
\* when there is one and END_INTERVIEW otherwise, and in the latter case the
\* phase is ENDED once that request has settled.
C31_LimitBeforeNavigation ==
    /\ [](LastAttemptAtTopicEnd =>
             IF HasTopic(last.call.plan, last.call.currentTopicIndex + 1)
             THEN /\ last.issued.effectiveActionCode = NEXT_TOPIC
                  /\ last.issued.nextStateTopicIndex = last.call.currentTopicIndex + 1
                  /\ last.issued.nextStateQuestionIndex = 0
             ELSE /\ last.issued.effectiveActionCode = END_INTERVIEW
                  /\ last.issued.endInterview)
    /\ [][(/\ LastAttemptAtTopicEnd
            /\ ~HasTopic(last.call.plan, last.call.currentTopicIndex + 1)
            /\ last'.op = "interviewerReturn"
            /\ last'.call = last.issued)
              => interviewState' = "ENDED"]_vars

\* the third Repeat at the last question of a topic that has a successor
C31_Witness ==
    /\ LastAttemptAtTopicEnd
    /\ HasTopic(last.call.plan, last.call.currentTopicIndex + 1)
    /\ currentQuestionAttempts = MAX_ATTEMPTS_PLANNED

\* the requested actions other than END_INTERVIEW
GoingOn == {REPEAT_QUESTION, CLARIFY_QUESTION, NEXT_QUESTION, NEXT_TOPIC}

\* the turn request is for a question index at or beyond the end of a topic
\* that has a successor
PastTopicEnd(call) ==
    /\ HasTopic(call.plan, call.topicIdx)
    /\ call.questionIdx >= QuestionCount(call.plan, call.topicIdx)
    /\ HasTopic(call.plan, call.topicIdx + 1)

\* C32: a turn request for a question index at or beyond the end of a topic t
\* that has a successor, with requested action Repeat, Clarify, NextQuestion
\* or NextTopic, has effective action NEXT_TOPIC, next position (t+1, 0) and
\* the first question of topic t+1 as its question text.
C32_ExhaustedTopicMovesOn ==
    \A call \in InFlight("interviewer") :
        (PastTopicEnd(call) /\ call.actionCode \in GoingOn) =>
            /\ call.effectiveActionCode = NEXT_TOPIC
            /\ call.nextStateTopicIndex = call.topicIdx + 1
            /\ call.nextStateQuestionIndex = 0
            /\ Resolve(call.plan, call.topicIdx, call.questionIdx,
                       call.actionCode).plannedQuestion = <<call.topicIdx + 1, 0>>

\* a Repeat requested beyond the end of the first topic has presented the
\* first question of the second
C32_Witness ==
    /\ PlannedPresented
    /\ PastTopicEnd(last.call)
    /\ last.call.actionCode = REPEAT_QUESTION
    /\ currentTopicIndex = last.call.topicIdx + 1
    /\ currentQuestionIndex = 0

\* C33: when a turn request with effective action END_INTERVIEW settles, the
\* phase is ENDED whatever the output was; no follow-up state is entered and
\* the streak is not raised.
C33_EndRequestAlwaysEnds ==
    [][(last'.op = "interviewerReturn"
           /\ last'.call.effectiveActionCode = END_INTERVIEW)
          => /\ interviewState' = "ENDED"
             /\ isFollowUpActive' => isFollowUpActive
             /\ pausedState' \in {Null, pausedState}
             /\ currentFollowUpStreak' <= currentFollowUpStreak
             /\ TurnReturned' =>
                   /\ ~isFollowUpActive' /\ pausedState' = Null
                   /\ currentFollowUpStreak' = 0]_vars

\* the assessor asked for the end at a question of the plan and the output of
\* the closing request has been received
C33_Witness ==
    /\ TurnReturned
    /\ last.call.actionCode = END_INTERVIEW
    /\ ~last.call.endInterview
    /\ interviewState = "ENDED"
    /\ interviewLog # <<>>

\* the candidate can answer a planned question: InProgress, not busy, no
\* follow-up active
AwaitingPlannedAnswer ==
    /\ interviewState = "IN_PROGRESS"
    /\ ~isLoading
    /\ ~isFollowUpActive

\* (currentTopicIndex, currentQuestionIndex) is an index into the plan
PositionInPlan ==
    /\ HasTopic(interviewPlan, currentTopicIndex)
    /\ currentQuestionIndex \in
          0..(QuestionCount(interviewPlan, currentTopicIndex) - 1)

\* handleSubmitAnswer took its branch for an answer without a question
NoQuestionBranch ==
    /\ last.op = "submit"
    /\ last.res = "no question"

\* C34: whenever the phase is InProgress, the busy flag is clear and no
\* follow-up is active, the position indexes an existing question of the
\* accepted plan, and handleSubmitAnswer never takes its branch for an answer
\* that cannot be associated with a question.
C34_AnswerHasQuestion ==
    /\ AwaitingPlannedAnswer => PositionInPlan
    /\ ~NoQuestionBranch

\* lexicographic order on positions <<topic, question>>
NotBehind(later, earlier) ==
    \/ later[1] > earlier[1]
    \/ later[1] = earlier[1] /\ later[2] >= earlier[2]

PlannedPosition == <<currentTopicIndex, currentQuestionIndex>>

PausedPosition == <<pausedState.topicIndex, pausedState.questionIndex>>

\* C35: the planned position never moves backwards, and a paused position
\* stored for a follow-up is never behind the current planned position.
C35_PositionMonotone ==
    /\ [][NotBehind(PlannedPosition', PlannedPosition)]_vars
    /\ [](pausedState # Null => NotBehind(PausedPosition, PlannedPosition))

\* the entry the step taken last appended to the log
NewEntry == interviewLog[Len(interviewLog)]

SubmitAccepted == last.op = "submit"

\* C37: a call of handleSubmitAnswer with an empty answer, or while isLoading
\* is set, or in a phase other than IN_PROGRESS, is skipped, and a skipped call
\* leaves the plan, the position, the attempt count, the follow-up state, the
\* streak, the log and the phase unchanged and issues no call.
C37_SkippedSubmitChangesNothing ==
    [][/\ last'.op = "submitSkipped"
          => UNCHANGED <<interviewPlan, currentTopicIndex, currentQuestionIndex,
                         currentQuestionAttempts, isFollowUpActive, pausedState,
                         currentFollowUpStreak, interviewLog, interviewState,
                         isLoading, inflight>>
       /\ SubmitAccepted'
          => /\ ~isLoading
             /\ interviewState = "IN_PROGRESS"
             /\ last'.issued.kind = "monitor" => last'.issued.combinedAnswer]_vars

\* a submission has been skipped while a request was in flight in phase
\* IN_PROGRESS, with answers already in the log
C37_Witness ==
    /\ last.op = "submitSkipped"
    /\ interviewState = "IN_PROGRESS"
    /\ isLoading
    /\ InFlight("interviewer") # {}
    /\ interviewLog # <<>>

====
